---------------------------- MODULE Spec2Model ----------------------------
(***************************************************************************)
(* A model of the simulators of nkkmd/cultivationdata-net:                 *)
(*   - the rebalance simulators (AssetManagement/RebalanceSimulator and    *)
(*     RebalanceSimulator): class Portfolio, run_simulation, and the       *)
(*     weight-entry loop of the AssetManagement script;                    *)
(*   - the Monte Carlo simulators, the stress test simulator and the risk  *)
(*     metrics (further down).                                             *)
(* Python floats are modelled as exact rationals <<numerator, denominator>>*)
(* in lowest terms with a positive denominator, so equality of two numbers *)
(* is equality of the pairs.                                               *)
(***************************************************************************)
EXTENDS Integers, Sequences, FiniteSets, TLC

(***************************************************************************)
(* Rational arithmetic.                                                    *)
(***************************************************************************)
Abs(n) == IF n < 0 THEN -n ELSE n

RECURSIVE GCD(_, _)
GCD(a, b) == IF b = 0 THEN a ELSE GCD(b, a % b)

Rat(n, d) ==
    LET s == IF d < 0 THEN -1 ELSE 1
        g == GCD(Abs(n), Abs(d))
    IN  <<(s * n) \div g, (s * d) \div g>>

Zero == Rat(0, 1)
One == Rat(1, 1)
RInt(n) == Rat(n, 1)
RNeg(x) == <<-x[1], x[2]>>
\* denominators are brought to their least common multiple, and products are
\* cancelled crosswise before multiplying, to keep the integers small
RAdd(x, y) ==
    LET g == GCD(x[2], y[2])
    IN  Rat(x[1] * (y[2] \div g) + y[1] * (x[2] \div g), (x[2] \div g) * y[2])
RSub(x, y) == RAdd(x, RNeg(y))
RMul(x, y) ==
    LET g1 == GCD(Abs(x[1]), y[2])
        g2 == GCD(Abs(y[1]), x[2])
    IN  <<(x[1] \div g1) * (y[1] \div g2), (x[2] \div g2) * (y[2] \div g1)>>
RInv(x) == IF x[1] < 0 THEN <<-x[2], -x[1]>> ELSE <<x[2], x[1]>>
RDiv(x, y) == RMul(x, RInv(y))
RAbs(x) == <<Abs(x[1]), x[2]>>
RLt(x, y) ==
    LET g == GCD(x[2], y[2])
    IN  x[1] * (y[2] \div g) < y[1] * (x[2] \div g)
RLe(x, y) == ~RLt(y, x)
RMax(x, y) == IF RLt(x, y) THEN y ELSE x

\* sum(f[a] for a in S)
RECURSIVE RSum(_, _)
RSum(f, S) ==
    IF S = {} THEN Zero
    ELSE LET a == CHOOSE x \in S : TRUE
         IN  RAdd(f[a], RSum(f, S \ {a}))

(***************************************************************************)
(* Bounds and input sets of the rebalance simulators.                      *)
(***************************************************************************)
\* len(historical_data): the number of rows (periods) of the price table
NumPeriods == 3
\* the largest rebalance interval entered (periods)
MaxInterval == 2

\* tickers the user may type in the weight-entry loop
TickerChoices == {"SPY", "AGG"}
\* weights the user may type for a ticker
WeightChoices == {Rat(2, 5), Rat(3, 5)}
\* thresholds the user may type for threshold rebalancing
ThresholdChoices == {Rat(1, 20), Rat(3, 20)}
\* adjusted close prices a row of historical_data may hold for one ticker
PriceChoices == {1, 2}

\* RebalanceSimulator/rebalance_simulator.py: initial_balance = 10000;
\* the same amount is what the user of the AssetManagement script enters
initial_balance == 10000
\* RebalanceSimulator/rebalance_simulator.py: the literal target_allocations
target_allocations ==
    [a \in {"SPY", "AGG", "GLD"} |->
        CASE a = "SPY" -> Rat(6, 10)
          [] a = "AGG" -> Rat(3, 10)
          [] a = "GLD" -> Rat(1, 10)]

VARIABLES
    pc,                \* where the script is
    script,            \* "AssetManagement" or "Standalone" (RebalanceSimulator/)
    portfolio,         \* the ticker -> weight dict (the target allocations)
    total_weight,      \* running total of the entered weights
    run,               \* which run_simulation call: "periodic", "threshold",
                       \* "non_rebalanced", "rebalanced"
    rebalance_method,  \* "PERIODIC" or "THRESHOLD"
    rebalance_param,   \* the interval (an integer) or the threshold (a rational)
    holdings,          \* Portfolio.holdings
    asset_values,      \* Portfolio.asset_values: ticker -> list of values
    portfolio_values,  \* run_simulation's list of period totals
    rebalance_dates,   \* run_simulation's list of rebalance dates (row indexes)
    current_prices     \* the row of prices of the period just processed

rbVars == <<pc, script, portfolio, total_weight, run, rebalance_method,
            rebalance_param, holdings, asset_values, portfolio_values,
            rebalance_dates, current_prices>>

VARIABLES
    rng                \* the state of numpy's global random generator

VARIABLES
    mc_pc,             \* where monte_carlo_simulation is
    initial_investment,
    months,
    num_simulations,
    expected_return,
    volatility,        \* in units of sqrt(252), see DailySigma
    rebalance_months,
    daily_returns,     \* the (days, num_simulations) array of drawn returns
    cumulative_returns,\* the (days, num_simulations) array of results
    portfolio_value,   \* the local portfolio_value of the pass of each path
    day,               \* the next day of the pass of each path
    final_values

mcVars == <<mc_pc, initial_investment, months, num_simulations, expected_return,
            volatility, rebalance_months, daily_returns, cumulative_returns,
            portfolio_value, day, final_values>>

VARIABLES
    st_pc,             \* where simulate_scenario is
    params,            \* the SimulationParams of the call
    base_return,
    base_volatility,   \* in units of sqrt(MonthsPerYear), see MonthlySigma
    scenario_type,
    scenario,          \* the list of values of the scenario
    month,             \* the next month of the loop
    caller_seed,       \* the seed the caller gave np.random.seed before the call
    histories          \* the lists returned by the calls made so far

stVars == <<st_pc, params, base_return, base_volatility, scenario_type,
            scenario, month, caller_seed, histories>>

VARIABLES
    rk_pc,             \* which risk report was computed last
    rk_final_values,   \* the final values handed to the risk metrics
    rk_initial_investment,
    confidence_level,
    risk_metrics,      \* the dict calculate_risk_metrics returns
    var_report         \* the amount printed as "95% VaR"

rkVars == <<rk_pc, rk_final_values, rk_initial_investment, confidence_level,
            risk_metrics, var_report>>

VARIABLES
    pf_pc,             \* where calculate_performance is
    pf_portfolio_values, \* the portfolio_values handed to calculate_performance
    performance        \* what calculate_performance returns

pfVars == <<pf_pc, pf_portfolio_values, performance>>

VARIABLES
    op_pc,             \* where display_efficient_frontier is
    solves,            \* the results minimize returned so far, with the caller
    max_sharpe,        \* the result of tangency_portfolio
    min_vari,          \* the result of min_variance_portfolio
    allocations_shown, \* the weight vectors made into allocation tables
    efficients         \* efficient_frontier's list of volatilities

opVars == <<op_pc, solves, max_sharpe, min_vari, allocations_shown, efficients>>

vars == <<rbVars, rng, mcVars, stVars, rkVars, pfVars, opVars>>

\* the rebalance simulators leave the other programs alone
RbFrame == UNCHANGED <<rng, mcVars, stVars, rkVars, pfVars, opVars>>

(***************************************************************************)
(* class Portfolio                                                         *)
(***************************************************************************)
\* Portfolio.__init__: holdings = initial_balance * allocation per asset
InitialHoldings(balance, allocations) ==
    [a \in DOMAIN allocations |-> RMul(RInt(balance), allocations[a])]

\* sum(self.holdings[asset] * price for asset, price in current_prices.items())
TotalValue(h, prices) ==
    RSum([a \in DOMAIN prices |-> RMul(h[a], RInt(prices[a]))], DOMAIN prices)

\* the mutant divides nothing: shares_adjustment = target_value - current_value
RebalanceNoDivision(h, allocations, prices) ==
    LET total_value == TotalValue(h, prices)
    IN  [a \in DOMAIN allocations |->
            LET target_value == RMul(total_value, allocations[a])
                current_value == RMul(h[a], RInt(prices[a]))
            IN  RAdd(h[a], RSub(target_value, current_value))]

\* Portfolio.rebalance: the holdings after the call
Rebalance(h, allocations, prices) ==
    LET total_value == TotalValue(h, prices)
    IN  [a \in DOMAIN allocations |->
            LET target_value == RMul(total_value, allocations[a])
                current_value == RMul(h[a], RInt(prices[a]))
                shares_adjustment ==
                    RDiv(RSub(target_value, current_value), RInt(prices[a]))
            IN  RAdd(h[a], shares_adjustment)]

\* Portfolio.update_value: the value appended for each asset
AssetValueNow(h, prices) ==
    [a \in DOMAIN h |-> RMul(h[a], RInt(prices[a]))]

\* the order in which the loop of check_threshold visits the assets
AssetOrder(S) ==
    LET all == <<"SPY", "AGG", "GLD">>
    IN  SelectSeq(all, LAMBDA a : a \in S)

\* the mutant compares with >= instead of >
RECURSIVE CheckThresholdLoopGe(_, _, _, _, _, _)
CheckThresholdLoopGe(order, h, allocations, prices, total_value, threshold) ==
    IF order = <<>> THEN FALSE
    ELSE LET asset == Head(order)
             current_allocation ==
                 RDiv(RMul(h[asset], RInt(prices[asset])), total_value)
         IN  IF RLe(threshold, RAbs(RSub(current_allocation, allocations[asset])))
             THEN TRUE
             ELSE CheckThresholdLoopGe(Tail(order), h, allocations, prices,
                                       total_value, threshold)

\* the loop of Portfolio.check_threshold, returning at the first asset
\* whose allocation is off by more than the threshold
RECURSIVE CheckThresholdLoop(_, _, _, _, _, _)
CheckThresholdLoop(order, h, allocations, prices, total_value, threshold) ==
    IF order = <<>> THEN FALSE
    ELSE LET asset == Head(order)
             current_allocation ==
                 RDiv(RMul(h[asset], RInt(prices[asset])), total_value)
         IN  IF RLt(threshold, RAbs(RSub(current_allocation, allocations[asset])))
             THEN TRUE
             ELSE CheckThresholdLoop(Tail(order), h, allocations, prices,
                                     total_value, threshold)

\* Portfolio.check_threshold
CheckThreshold(h, allocations, prices, threshold) ==
    CheckThresholdLoop(AssetOrder(DOMAIN allocations), h, allocations, prices,
                       TotalValue(h, prices), threshold)

(***************************************************************************)
(* The weight-entry loop of AssetManagement/RebalanceSimulator             *)
(***************************************************************************)
\* portfolio[ticker] = weight
SetItem(d, key, value) ==
    [k \in DOMAIN d \cup {key} |-> IF k = key THEN value ELSE d[k]]

\* if total_weight != 1: portfolio[ticker] /= total_weight, for every ticker
Normalize(d, total) ==
    IF total # One THEN [k \in DOMAIN d |-> RDiv(d[k], total)] ELSE d

\* one pass of the while loop; the pass that brings total_weight to 1 or more
\* leaves the loop and runs the normalisation that follows it
EnterWeight(ticker, weight) ==
    /\ pc = "input"
    /\ RLt(total_weight, One)
    /\ LET entered == SetItem(portfolio, ticker, weight)
           total == RAdd(total_weight, weight)
       IN  /\ total_weight' = total
           /\ IF RLe(One, total)
              THEN /\ portfolio' = Normalize(entered, total)
                   /\ pc' = "configured"
              ELSE /\ portfolio' = entered
                   /\ pc' = "input"
    /\ script' = "AssetManagement"
    /\ UNCHANGED <<run, rebalance_method, rebalance_param, holdings,
                   asset_values, portfolio_values, rebalance_dates,
                   current_prices>>
    /\ RbFrame

(***************************************************************************)
(* run_simulation                                                          *)
(***************************************************************************)
\* portfolio = Portfolio(initial_balance, target_allocations);
\* portfolio_values = []; rebalance_dates = []
StartRun(name, method, param) ==
    /\ run' = name
    /\ rebalance_method' = method
    /\ rebalance_param' = param
    /\ holdings' = InitialHoldings(initial_balance, portfolio')
    /\ asset_values' = [a \in DOMAIN portfolio' |-> <<>>]
    /\ portfolio_values' = <<>>
    /\ rebalance_dates' = <<>>
    /\ current_prices' = <<>>
    /\ pc' = "running"
    /\ RbFrame

\* AssetManagement: run_simulation(..., RebalanceMethod.PERIODIC,
\* periodic_rebalance_frequency)
RunPeriodic(interval) ==
    /\ pc = "configured"
    /\ UNCHANGED <<script, portfolio, total_weight>>
    /\ StartRun("periodic", "PERIODIC", interval)

\* AssetManagement: run_simulation(..., RebalanceMethod.THRESHOLD, threshold)
RunThreshold(threshold) ==
    /\ pc = "configured"
    /\ UNCHANGED <<script, portfolio, total_weight>>
    /\ StartRun("threshold", "THRESHOLD", threshold)

\* AssetManagement: the "no rebalancing" run,
\* run_simulation(..., RebalanceMethod.PERIODIC, len(historical_data))
RunNonRebalanced ==
    /\ pc = "configured"
    /\ UNCHANGED <<script, portfolio, total_weight>>
    /\ StartRun("non_rebalanced", "PERIODIC", NumPeriods)

\* RebalanceSimulator/: run_simulation(initial_balance, target_allocations,
\* historical_data, rebalance_frequency); frequency 0 is its run without
\* rebalancing
RunStandalone(rebalance_frequency) ==
    /\ pc = "input"
    /\ portfolio = <<>>
    /\ script' = "Standalone"
    /\ portfolio' = target_allocations
    /\ UNCHANGED total_weight
    /\ StartRun(IF rebalance_frequency = 0 THEN "non_rebalanced" ELSE "rebalanced",
                "FREQUENCY", rebalance_frequency)

\* the rebalance decision of one pass of the loop over historical_data
ShouldRebalance(prices) ==
    CASE rebalance_method = "PERIODIC" ->
            Len(portfolio_values) % rebalance_param = 0
      [] rebalance_method = "THRESHOLD" ->
            CheckThreshold(holdings, portfolio, prices, rebalance_param)
      [] rebalance_method = "FREQUENCY" ->
            /\ rebalance_param > 0
            /\ Len(portfolio_values) % rebalance_param = 0

\* len(portfolio_values) % 0 raises ZeroDivisionError
Raises == rebalance_method = "PERIODIC" /\ rebalance_param = 0

\* one pass of the loop over historical_data.iterrows(): decide, rebalance,
\* update_value, append; the pass over the last row returns
Advance(prices) ==
    /\ pc = "running"
    /\ Len(portfolio_values) < NumPeriods
    /\ ~Raises
    /\ current_prices' = prices
    /\ LET should_rebalance == ShouldRebalance(prices)
           date == Len(portfolio_values)
           h == IF should_rebalance
                THEN Rebalance(holdings, portfolio, prices)
                ELSE holdings
           value == AssetValueNow(h, prices)
       IN  /\ holdings' = h
           /\ rebalance_dates' = IF should_rebalance
                                 THEN Append(rebalance_dates, date)
                                 ELSE rebalance_dates
           /\ asset_values' =
                  [a \in DOMAIN asset_values |-> Append(asset_values[a], value[a])]
           /\ portfolio_values' =
                  Append(portfolio_values, RSum(value, DOMAIN value))
    /\ pc' = IF Len(portfolio_values') = NumPeriods THEN "finished" ELSE "running"
    /\ UNCHANGED <<script, portfolio, total_weight, run, rebalance_method,
                   rebalance_param>>
    /\ RbFrame

\* the pass in which the modulo by a zero interval raises: the script ends
AdvanceRaises ==
    /\ pc = "running"
    /\ Len(portfolio_values) < NumPeriods
    /\ Raises
    /\ pc' = "ZeroDivisionError"
    /\ UNCHANGED <<script, portfolio, total_weight, run, rebalance_method,
                   rebalance_param, holdings, asset_values, portfolio_values,
                   rebalance_dates, current_prices>>
    /\ RbFrame

PriceRows(S) == [S -> PriceChoices]

RbInit ==
    /\ pc = "input"
    /\ script = "none"
    /\ portfolio = <<>>
    /\ total_weight = Zero
    /\ run = "none"
    /\ rebalance_method = "none"
    /\ rebalance_param = 0
    /\ holdings = <<>>
    /\ asset_values = <<>>
    /\ portfolio_values = <<>>
    /\ rebalance_dates = <<>>
    /\ current_prices = <<>>

\* monte_carlo_simulation not called
McIdle ==
    /\ mc_pc = "idle"
    /\ initial_investment = 0
    /\ months = 0
    /\ num_simulations = 0
    /\ expected_return = Zero
    /\ volatility = Zero
    /\ rebalance_months = <<>>
    /\ daily_returns = <<>>
    /\ cumulative_returns = <<>>
    /\ portfolio_value = <<>>
    /\ day = <<>>
    /\ final_values = <<>>

\* simulate_scenario not called
StIdle ==
    /\ st_pc = "idle"
    /\ params = <<>>
    /\ base_return = Zero
    /\ base_volatility = Zero
    /\ scenario_type = "none"
    /\ scenario = <<>>
    /\ month = 0
    /\ caller_seed = 0
    /\ histories = <<>>

\* no risk report computed
RkIdle ==
    /\ rk_pc = "idle"
    /\ rk_final_values = <<>>
    /\ rk_initial_investment = 0
    /\ confidence_level = Zero
    /\ risk_metrics = <<>>
    /\ var_report = Zero

PfIdle ==
    /\ pf_pc = "idle"
    /\ pf_portfolio_values = <<>>
    /\ performance = <<>>

OpIdle ==
    /\ op_pc = "idle"
    /\ solves = <<>>
    /\ max_sharpe = <<>>
    /\ min_vari = <<>>
    /\ allocations_shown = <<>>
    /\ efficients = <<>>

Init == RbInit /\ rng = 0 /\ McIdle /\ StIdle /\ RkIdle /\ PfIdle /\ OpIdle

Next ==
    \/ \E t \in TickerChoices, w \in WeightChoices : EnterWeight(t, w)
    \/ \E i \in 0..MaxInterval : RunPeriodic(i)
    \/ \E t \in ThresholdChoices : RunThreshold(t)
    \/ RunNonRebalanced
    \/ \E f \in 0..MaxInterval : RunStandalone(f)
    \/ \E prices \in PriceRows(DOMAIN portfolio) : Advance(prices)
    \/ AdvanceRaises

Spec == Init /\ [][Next]_vars

(***************************************************************************)
(* Properties of the rebalance simulators                                  *)
(***************************************************************************)
Last(seq) == seq[Len(seq)]
Dates == {rebalance_dates[i] : i \in 1..Len(rebalance_dates)}
SumOfWeights == RSum(portfolio, DOMAIN portfolio)
\* a pass of the loop of run_simulation has just been made
Advanced == pc = "running" /\ Len(portfolio_values') = Len(portfolio_values) + 1
\* that pass called Portfolio.rebalance
Rebalanced == Len(rebalance_dates') = Len(rebalance_dates) + 1
\* the weight of an asset: units * price / total value at these prices
CurrentWeight(h, prices, a) ==
    RDiv(RMul(h[a], RInt(prices[a])), TotalValue(h, prices))
\* the weight of an asset in the values recorded for period k (from 1)
RecordedWeight(a, k) == RDiv(asset_values[a][k], portfolio_values[k])

\* C1: a pass that rebalances leaves every asset with units such that
\* units * price is the total value (at the same prices, before the
\* rebalance) times the asset's target weight.
C1_RebalanceReachesTarget ==
    [][(Advanced /\ Rebalanced) =>
          \A a \in DOMAIN portfolio :
              RMul(holdings'[a], RInt(current_prices'[a]))
                  = RMul(TotalValue(holdings, current_prices'), portfolio[a])]_vars

\* a rebalance after the first period, with weights summing to 1, two assets
\* at different prices, that changed the holdings
C1_Witness ==
    /\ pc \in {"running", "finished"}
    /\ Len(portfolio_values) >= 2
    /\ rebalance_dates # <<>>
    /\ Last(rebalance_dates) = Len(portfolio_values) - 1
    /\ SumOfWeights = One
    /\ \E a, b \in DOMAIN portfolio : current_prices[a] # current_prices[b]
    /\ holdings # InitialHoldings(initial_balance, portfolio)

\* the period of the last rebalance before period k, 0 (the start) if none
LastRebalanceBefore(k) ==
    LET earlier == {d \in Dates : d < k}
    IN  IF earlier = {} THEN 0
        ELSE CHOOSE d \in earlier : \A e \in earlier : e <= d

\* C2: under the periodic policy a rebalance happens at a period exactly
\* when the periods elapsed since the last rebalance (since the start when
\* there was none) have reached the interval.
C2_PeriodicWhenIntervalElapsed ==
    (rebalance_method \in {"PERIODIC", "FREQUENCY"} /\ rebalance_param >= 1) =>
        \A k \in 0..(Len(portfolio_values) - 1) :
            (k \in Dates) <=> (k - LastRebalanceBefore(k) = rebalance_param)

\* what the loops of run_simulation do instead: they rebalance at the
\* periods whose index is a multiple of the interval, the first included
PeriodicAtMultiples ==
    (rebalance_method \in {"PERIODIC", "FREQUENCY"} /\ rebalance_param >= 1) =>
        \A k \in 0..(Len(portfolio_values) - 1) :
            (k \in Dates) <=> (k % rebalance_param = 0)

\* C3: under the threshold policy the decision of a period is to rebalance
\* exactly when some asset's weight differs from its target by strictly more
\* than the tolerance.
C3_ThresholdDecision ==
    [][(Advanced /\ rebalance_method = "THRESHOLD") =>
          (Rebalanced <=>
              \E a \in DOMAIN portfolio :
                  RLt(rebalance_param,
                      RAbs(RSub(CurrentWeight(holdings, current_prices', a),
                                portfolio[a]))))]_vars

\* a threshold run whose last period was not rebalanced although an asset's
\* weight is off by exactly the tolerance
C3_Witness ==
    /\ rebalance_method = "THRESHOLD"
    /\ Len(portfolio_values) >= 1
    /\ (Len(portfolio_values) - 1) \notin Dates
    /\ \E a \in DOMAIN portfolio :
           RAbs(RSub(RecordedWeight(a, Len(portfolio_values)), portfolio[a]))
               = rebalance_param

\* C4: in a threshold run the values recorded at every period give weights
\* within the tolerance of the target weights.
C4_ThresholdKeepsWeights ==
    rebalance_method = "THRESHOLD" =>
        \A k \in 1..Len(portfolio_values) : \A a \in DOMAIN portfolio :
            RLe(RAbs(RSub(RecordedWeight(a, k), portfolio[a])), rebalance_param)

\* the same, for the target weights that sum to 1
ThresholdKeepsWeightsSummingToOne ==
    SumOfWeights = One => C4_ThresholdKeepsWeights

\* C5: in the run made without rebalancing Portfolio.rebalance is never
\* called and the units of every asset stay what they were at the start
\* (stated for the target weights that sum to 1).
C5_NonRebalancedRunNeverRebalances ==
    (run = "non_rebalanced" /\ pc \in {"running", "finished"}
        /\ SumOfWeights = One) =>
        /\ rebalance_dates = <<>>
        /\ holdings = InitialHoldings(initial_balance, portfolio)

\* the same, of the standalone script alone (its frequency 0)
StandaloneNonRebalancedRunNeverRebalances ==
    script = "Standalone" => C5_NonRebalancedRunNeverRebalances

\* C6: the initial investment is split by the target weights: at the first
\* period each asset is worth initial investment * weight, so with weights
\* summing to 1 the first total is the initial investment.
C6_InitialInvestmentSplit ==
    (Len(portfolio_values) >= 1 /\ SumOfWeights = One) =>
        /\ \A a \in DOMAIN portfolio :
               asset_values[a][1] = RMul(RInt(initial_balance), portfolio[a])
        /\ portfolio_values[1] = RInt(initial_balance)

\* with the interval 0 the AssetManagement run raises ZeroDivisionError at
\* the first row and records nothing
PeriodicZeroIntervalRecordsNothing ==
    (pc # "input" /\ rebalance_method = "PERIODIC" /\ rebalance_param = 0) =>
        /\ portfolio_values = <<>>
        /\ pc \in {"running", "ZeroDivisionError"}

\* C19: at a period where a rebalance is applied the total recorded is the
\* total the holdings had at the prices of the period before the rebalance.
C19_RebalanceIsFrictionless ==
    [][(Advanced /\ Rebalanced) =>
          Last(portfolio_values') = TotalValue(holdings, current_prices')]_vars

\* the same, for the target weights that sum to 1
RebalanceIsFrictionlessSummingToOne ==
    [][(Advanced /\ Rebalanced /\ SumOfWeights = One) =>
          Last(portfolio_values') = TotalValue(holdings, current_prices')]_vars

\* C15: after the weight-entry loop and its normalisation the weights stored
\* in the portfolio mapping sum to 1.
C15_StoredWeightsSumToOne ==
    (script = "AssetManagement" /\ pc # "input") => SumOfWeights = One

\* the stored weights never sum to more than 1
StoredWeightsSumToAtMostOne ==
    (script = "AssetManagement" /\ pc # "input") => RLe(SumOfWeights, One)

(***************************************************************************)
(* numpy's global random generator                                         *)
(*                                                                         *)
(* The generator is a deterministic machine: a state, a step to the next   *)
(* state, and a standard normal variate computed from the state.  The model*)
(* keeps a few states and a table of variates; np.random.normal(loc, scale)*)
(* is loc + scale * variate.                                               *)
(***************************************************************************)
\* the number of states of the generator
RngStates == 4
\* the state after n draws
RngAdvance(s, n) == (s + n) % RngStates
\* the standard normal variate drawn in state s
ZTable == <<-2, 1, 0, -1>>
StandardNormal(s) == RInt(ZTable[(s % Len(ZTable)) + 1])
\* np.random.normal(loc, scale): the n-th draw (from 0) starting in state s
NormalDraw(loc, scale, s, n) ==
    RAdd(loc, RMul(scale, StandardNormal(RngAdvance(s, n))))
\* np.random.seed(): a fresh state from the operating system's entropy
EntropyStates == 0..(RngStates - 1)

(***************************************************************************)
(* monte_carlo_simulation (AssetManagement/MonteCarloSimulator and         *)
(* MonteCarloSimulation, the same function in both)                        *)
(***************************************************************************)
\* trading days per month: 21 in the source, fewer here to keep the runs short
DaysPerMonth == 2
\* the longest simulation period (months)
MaxMonths == 2
\* the largest number of simulations
MaxSimulations == 2
\* trading days per year
TradingDaysPerYear == 252

\* amounts the caller may invest
InvestmentChoices == {100}
\* annual expected returns: 0 and 12600 %, the daily mean being 0 and 1/2
ExpectedReturnChoices == {Zero, RInt(126)}
\* annual volatilities, in units of sqrt(252): the daily deviation is the
\* same number (0: every draw is the mean)
VolatilityChoices == {Zero, One}
\* rebalance_months: None (the default, written <<>>), or <<n>> for the
\* integer n: 0, or a number of months
RebalanceMonthsChoices == {<<>>, <<0>>, <<1>>}

\* expected_return/252
DailyMu(er) == RDiv(er, RInt(TradingDaysPerYear))
\* volatility/np.sqrt(252), the volatility being given in units of sqrt(252)
DailySigma(vol) == vol

Days == months * DaysPerMonth
Sims == 0..(num_simulations - 1)

\* the mutant keeps portfolio_value from the pass of the path before
PathStartValueCarried(sim) ==
    IF sim = 0 THEN RInt(initial_investment) ELSE portfolio_value[sim - 1]

\* portfolio_value = initial_investment, at the start of the pass of a path
PathStartValue(sim) == RInt(initial_investment)

\* Python's truth value of rebalance_months: None and 0 are false
Truthy(rm) == rm # <<>> /\ rm[1] # 0

\* the mutant starts again from the initial investment on a rebalance day
StepValueRebalancing(rm, value, d, sim) ==
    IF Truthy(rm) /\ d % (rm[1] * DaysPerMonth) = 0 /\ d > 0
    THEN RMul(RInt(initial_investment), RAdd(One, daily_returns[d][sim]))
    ELSE RMul(value, RAdd(One, daily_returns[d][sim]))

\* the body of the loop over the days, for a value rm of rebalance_months:
\* both branches of the if multiply portfolio_value by
\* 1 + daily_returns[day, sim]
StepValueWith(rm, value, d, sim) ==
    IF Truthy(rm) /\ d % (rm[1] * DaysPerMonth) = 0 /\ d > 0
    THEN RMul(value, RAdd(One, daily_returns[d][sim]))
    ELSE RMul(value, RAdd(One, daily_returns[d][sim]))

StepValue(value, d, sim) == StepValueWith(rebalance_months, value, d, sim)

McFrame == UNCHANGED <<rbVars, stVars, rkVars, pfVars, opVars>>

\* the call: the returns are drawn, the results zeroed
MonteCarloSimulation(init, m, n, er, vol, rm) ==
    /\ mc_pc = "idle"
    /\ initial_investment' = init
    /\ months' = m
    /\ num_simulations' = n
    /\ expected_return' = er
    /\ volatility' = vol
    /\ rebalance_months' = rm
    /\ LET days == m * DaysPerMonth
       IN  /\ daily_returns' =
                  [d \in 0..(days - 1) |-> [sim \in 0..(n - 1) |->
                      NormalDraw(DailyMu(er), DailySigma(vol), rng, d * n + sim)]]
           /\ cumulative_returns' =
                  [d \in 0..(days - 1) |-> [sim \in 0..(n - 1) |-> Zero]]
           /\ rng' = RngAdvance(rng, days * n)
    /\ portfolio_value' = [sim \in 0..(n - 1) |-> Zero]
    /\ day' = [sim \in 0..(n - 1) |-> 0]
    /\ final_values' = <<>>
    /\ mc_pc' = "running"
    /\ McFrame

\* one day of the pass of one path; the passes of different paths may be
\* made in any order and interleaved (each has its own portfolio_value); the
\* step that ends the last pass computes final_values and returns
StepPath(sim) ==
    /\ mc_pc = "running"
    /\ sim \in Sims
    /\ day[sim] < Days
    /\ LET d == day[sim]
           before == IF d = 0 THEN PathStartValue(sim) ELSE portfolio_value[sim]
           after == StepValue(before, d, sim)
       IN  /\ portfolio_value' = [portfolio_value EXCEPT ![sim] = after]
           /\ cumulative_returns' =
                  [cumulative_returns EXCEPT
                      ![d][sim] = RDiv(after, RInt(initial_investment))]
           /\ day' = [day EXCEPT ![sim] = d + 1]
    /\ IF \A other \in Sims : day'[other] = Days
       THEN /\ final_values' =
                   [other \in Sims |->
                       RMul(RInt(initial_investment),
                            cumulative_returns'[Days - 1][other])]
            /\ mc_pc' = "returned"
       ELSE UNCHANGED <<final_values, mc_pc>>
    /\ UNCHANGED <<rng, initial_investment, months, num_simulations,
                   expected_return, volatility, rebalance_months, daily_returns>>
    /\ McFrame

McInit == RbInit /\ rng \in EntropyStates /\ McIdle /\ StIdle /\ RkIdle /\ PfIdle /\ OpIdle

McNext ==
    \/ \E init \in InvestmentChoices, m \in 1..MaxMonths,
          n \in 1..MaxSimulations, er \in ExpectedReturnChoices,
          vol \in VolatilityChoices, rm \in RebalanceMonthsChoices :
              MonteCarloSimulation(init, m, n, er, vol, rm)
    \/ \E sim \in 0..(MaxSimulations - 1) : StepPath(sim)

SpecMonteCarlo == McInit /\ [][McNext]_vars

(***************************************************************************)
(* Properties of monte_carlo_simulation                                    *)
(***************************************************************************)
\* the days of a path whose result has been written
Written(sim) == 0..(day[sim] - 1)

\* C7: the value of a path is never negative, and once it is zero it stays
\* zero for the rest of the path.
C7_ValueNeverNegative ==
    mc_pc \in {"running", "returned"} =>
        \A sim \in Sims : \A d \in Written(sim) :
            /\ RLe(Zero, cumulative_returns[d][sim])
            /\ (d > 0 /\ cumulative_returns[d - 1][sim] = Zero)
                   => cumulative_returns[d][sim] = Zero

\* the growth of path sim up to day d, from its own column of the returns:
\* the product of 1 + daily_returns[k, sim] for k = 0..d
RECURSIVE Growth(_, _)
Growth(sim, d) ==
    IF d < 0 THEN One
    ELSE RMul(Growth(sim, d - 1), RAdd(One, daily_returns[d][sim]))

\* C9: whatever the order and interleaving of the passes, the history of
\* each path is the growth computed from its own returns alone, the cells
\* not yet computed are untouched, and so are the final values.
C9_PathsIndependent ==
    mc_pc \in {"running", "returned"} =>
        /\ \A sim \in Sims : \A d \in 0..(Days - 1) :
               cumulative_returns[d][sim] =
                   IF d \in Written(sim) THEN Growth(sim, d) ELSE Zero
        /\ mc_pc = "returned" =>
               \A sim \in Sims :
                   final_values[sim] =
                       RMul(RInt(initial_investment), Growth(sim, Days - 1))

\* two paths with different returns, both part of the way through
C9_Witness ==
    /\ mc_pc = "running"
    /\ num_simulations >= 2
    /\ day[0] \in 1..(Days - 1)
    /\ day[1] \in 1..(Days - 1)
    /\ day[0] < day[1]
    /\ cumulative_returns[0][0] # cumulative_returns[0][1]

(***************************************************************************)
(* simulate_scenario (AssetManagement/StressTestSimulator)                 *)
(***************************************************************************)
\* months per year: 12 in the source, fewer here to keep the runs short
MonthsPerYear == 2
\* the largest rebalance frequency entered (months)
MaxFrequency == 2

\* initial investments, investment periods (years) and inflation rates (%)
\* the user may enter
StressInvestmentChoices == {10000}
InvestmentPeriodChoices == {1}
InflationChoices == {0, 3}
\* the percentages of stocks and bonds the user may enter
StocksBondsChoices == {<<60, 30>>, <<80, 40>>}
\* the base_return and base_volatility handed to simulate_scenario, the
\* volatility in units of sqrt(MonthsPerYear)
BaseReturnChoices == {Zero, Rat(1, 10)}
BaseVolatilityChoices == {Zero, One}
ScenarioTypes == {"normal", "market_crash", "prolonged_recession", "high_inflation"}
\* seeds a caller may give np.random.seed before calling
SeedChoices == {7, 42}

\* main(): cash = 100 - stocks - bonds; the allocation in fractions
AssetAllocation(stocks, bonds) ==
    [a \in {"stocks", "bonds", "cash"} |->
        CASE a = "stocks" -> Rat(stocks, 100)
          [] a = "bonds" -> Rat(bonds, 100)
          [] a = "cash" -> Rat(100 - stocks - bonds, 100)]

\* scenario = [params.initial_investment]; a market crash starts 40 % down
FirstValue(type, investment) ==
    IF type = "market_crash"
    THEN RMul(RInt(investment), Rat(6, 10))
    ELSE RInt(investment)

ReturnMultiplier(type) ==
    CASE type = "market_crash" -> Rat(5, 10)
      [] type = "prolonged_recession" -> Rat(3, 10)
      [] OTHER -> One

VolatilityMultiplier(type) ==
    CASE type = "market_crash" -> Rat(15, 10)
      [] type = "prolonged_recession" -> Rat(12, 10)
      [] OTHER -> One

\* scenario_return = base_return * return_multiplier, high inflation taking
\* inflation_rate / 100 off the base return first
ScenarioReturn(type, br, inflation) ==
    LET base == IF type = "high_inflation"
                THEN RSub(br, Rat(inflation, 100))
                ELSE br
    IN  RMul(base, ReturnMultiplier(type))

\* scenario_volatility = base_volatility * volatility_multiplier
ScenarioVolatility(type, bv) == RMul(bv, VolatilityMultiplier(type))

\* the mutant takes the annual return as the return of a month
AnnualMu(sr) == sr

\* scenario_return / 12
MonthlyMu(sr) == RDiv(sr, RInt(MonthsPerYear))
\* scenario_volatility / np.sqrt(12), the volatility being given in units
\* of the square root of the months per year
MonthlySigma(sv) == sv

\* the value appended for a month: scenario[-1] * (1 + real_return)
NextValue(value, s) ==
    LET monthly_return ==
            NormalDraw(MonthlyMu(ScenarioReturn(scenario_type, base_return,
                                                params.inflation_rate)),
                       MonthlySigma(ScenarioVolatility(scenario_type,
                                                       base_volatility)),
                       s, 0)
        real_return ==
            RSub(monthly_return, Rat(params.inflation_rate, 100 * MonthsPerYear))
    IN  RMul(value, RAdd(One, real_return))

\* target_allocation = {asset: value * scenario[-1]};
\* scenario[-1] = sum(target_allocation.values())
RebalancedValue(value, allocation) ==
    RSum([a \in DOMAIN allocation |-> RMul(allocation[a], value)],
         DOMAIN allocation)

StFrame == UNCHANGED <<rbVars, mcVars, rkVars, pfVars, opVars>>

\* the months of the loop
Months == params.investment_period * MonthsPerYear

\* the start of a call, up to the loop: np.random.seed() takes a fresh state
\* from the operating system's entropy, whatever the caller seeded before
EnterScenario(entropy) ==
    /\ rng' = entropy
    /\ scenario' = <<FirstValue(scenario_type', params'.initial_investment)>>
    /\ month' = 0
    /\ st_pc' = "running"
    /\ UNCHANGED histories
    /\ StFrame

\* the caller seeds the generator, np.random.seed(seed), and calls
\* simulate_scenario(params, base_return, base_volatility, scenario_type)
SimulateScenario(seed, p, br, bv, type, entropy) ==
    /\ st_pc = "idle"
    /\ caller_seed' = seed
    /\ params' = p
    /\ base_return' = br
    /\ base_volatility' = bv
    /\ scenario_type' = type
    /\ EnterScenario(entropy)

\* the caller seeds the generator with the same seed and makes the same
\* call again
SimulateScenarioAgain(entropy) ==
    /\ st_pc = "returned"
    /\ Len(histories) = 1
    /\ UNCHANGED <<caller_seed, params, base_return, base_volatility,
                   scenario_type>>
    /\ EnterScenario(entropy)

\* Python's a % b for b # 0: the result takes the sign of the divisor
PyMod(a, b) == IF b > 0 THEN a % b ELSE 0 - ((0 - a) % (0 - b))

\* one pass of the loop over the months; the last one returns the scenario
StepMonth ==
    /\ st_pc = "running"
    /\ month < Months
    /\ params.rebalance_frequency # 0
    /\ LET value == NextValue(Last(scenario), rng)
           kept == IF PyMod(month + 1, params.rebalance_frequency) = 0
                   THEN RebalancedValue(value, params.asset_allocation)
                   ELSE value
       IN  scenario' = Append(scenario, kept)
    /\ rng' = RngAdvance(rng, 1)
    /\ month' = month + 1
    /\ IF month' = Months
       THEN /\ st_pc' = "returned"
            /\ histories' = Append(histories, scenario')
       ELSE UNCHANGED <<st_pc, histories>>
    /\ UNCHANGED <<caller_seed, params, base_return, base_volatility,
                   scenario_type>>
    /\ StFrame

\* the pass in which (month + 1) % 0 raises ZeroDivisionError, after the
\* month's value was appended: the call returns nothing
StepMonthRaises ==
    /\ st_pc = "running"
    /\ month < Months
    /\ params.rebalance_frequency = 0
    /\ scenario' = Append(scenario, NextValue(Last(scenario), rng))
    /\ rng' = RngAdvance(rng, 1)
    /\ st_pc' = "ZeroDivisionError"
    /\ UNCHANGED <<month, histories, caller_seed, params, base_return,
                   base_volatility, scenario_type>>
    /\ StFrame

\* the rebalance frequencies the user may enter: int(...) takes any integer
FrequencyChoices == (0 - 1)..MaxFrequency

\* the SimulationParams main() builds (the fields simulate_scenario reads)
SimulationParams ==
    {[initial_investment |-> i, investment_period |-> y,
      asset_allocation |-> AssetAllocation(sb[1], sb[2]),
      inflation_rate |-> f, rebalance_frequency |-> r] :
        i \in StressInvestmentChoices, y \in InvestmentPeriodChoices,
        sb \in StocksBondsChoices, f \in InflationChoices,
        r \in FrequencyChoices}

StInit == RbInit /\ rng \in EntropyStates /\ McIdle /\ StIdle /\ RkIdle /\ PfIdle /\ OpIdle

StNext ==
    \/ \E seed \in SeedChoices, p \in SimulationParams,
          br \in BaseReturnChoices, bv \in BaseVolatilityChoices,
          type \in ScenarioTypes, entropy \in EntropyStates :
              SimulateScenario(seed, p, br, bv, type, entropy)
    \/ \E entropy \in EntropyStates : SimulateScenarioAgain(entropy)
    \/ StepMonth
    \/ StepMonthRaises

SpecStress == StInit /\ [][StNext]_vars

(***************************************************************************)
(* Properties of simulate_scenario                                         *)
(***************************************************************************)
\* C8: two calls made with the same seed given by the caller and the same
\* parameters return the same history of values.
C8_SameSeedSameHistory ==
    Len(histories) = 2 => histories[1] = histories[2]

\* x to the power n, n >= 0
RECURSIVE Power(_, _)
Power(x, n) == IF n = 0 THEN One ELSE RMul(x, Power(x, n - 1))

\* a call with volatility 0 and no inflation, of a scenario whose return model
\* is the base return itself
Deterministic ==
    /\ st_pc # "idle"
    /\ base_volatility = Zero
    /\ params.inflation_rate = 0
    /\ scenario_type \in {"normal", "high_inflation"}

\* C17: with volatility 0, no inflation and an allocation summing to 1, the
\* value after n periods is initial_investment * (1 + mean/periods_per_year)^n,
\* whatever the rebalance interval.
C17_DeterministicCompounding ==
    Deterministic =>
        \A n \in 0..(Len(scenario) - 1) :
            scenario[n + 1] =
                RMul(RInt(params.initial_investment),
                     Power(RAdd(One, RDiv(base_return, RInt(MonthsPerYear))),
                           n))

\* a deterministic call with a return that is not 0 ran to its horizon,
\* rebalancing every month
C17_Witness ==
    /\ Deterministic
    /\ st_pc = "returned"
    /\ base_return # Zero
    /\ params.rebalance_frequency = 1
    /\ Len(scenario) = Months + 1
    /\ Last(scenario) # RInt(params.initial_investment)

\* the same of every scenario type, from the first value and the return of
\* the scenario
DeterministicCompoundingOfScenarios ==
    (st_pc # "idle" /\ base_volatility = Zero /\ params.inflation_rate = 0) =>
        \A n \in 0..(Len(scenario) - 1) :
            scenario[n + 1] =
                RMul(FirstValue(scenario_type, params.initial_investment),
                     Power(RAdd(One, RDiv(ScenarioReturn(scenario_type,
                                                         base_return, 0),
                                          RInt(MonthsPerYear))),
                           n))

\* C18: a rebalance frequency that is 0 or negative is rejected before any
\* period is simulated: the call appends no value and returns no history.
C18_NonPositiveIntervalRejected ==
    (st_pc # "idle" /\ params.rebalance_frequency <= 0) =>
        /\ Len(scenario) <= 1
        /\ st_pc # "returned"

\* a call with a positive frequency never raises
PositiveFrequencyNeverRaises ==
    (st_pc # "idle" /\ params.rebalance_frequency > 0) =>
        st_pc # "ZeroDivisionError"

\* the rebalance of simulate_scenario leaves the value of the month what it
\* was: the allocation main() builds sums to 1
ScenarioRebalanceIsFrictionless ==
    [][(st_pc = "running" /\ Len(scenario') = Len(scenario) + 1)
          => Last(scenario') = NextValue(Last(scenario), rng)]_vars

(***************************************************************************)
(* The risk metrics: calculate_risk_metrics (AssetManagement/              *)
(* MonteCarloSimulator) and the statistics at the end of the               *)
(* MonteCarloSimulation script                                             *)
(***************************************************************************)
\* the largest number of final values
MaxValues == 3
\* square roots are computed to 1/SqrtScale, rounded down
SqrtScale == 100

\* final values of a simulated path, initial investments and confidence
\* levels handed to the risk metrics
FinalValueChoices == {RInt(50), RInt(100), RInt(200)}
RiskInvestmentChoices == {100, 150}
ConfidenceChoices == {Rat(95, 100), Rat(90, 100), Rat(10, 100)}

\* arrays of final values, indexed from 1
FinalValueArrays ==
    UNION {[1..n -> FinalValueChoices] : n \in 1..MaxValues}

\* the value inserted into a sorted sequence
RECURSIVE Insert(_, _)
Insert(x, sorted) ==
    IF sorted = <<>> THEN <<x>>
    ELSE IF RLe(x, Head(sorted)) THEN <<x>> \o sorted
         ELSE <<Head(sorted)>> \o Insert(x, Tail(sorted))

RECURSIVE Sorted(_)
Sorted(seq) == IF seq = <<>> THEN <<>> ELSE Insert(Head(seq), Sorted(Tail(seq)))

\* the integer part of a non-negative rational
Floor(x) == x[1] \div x[2]

\* np.percentile(values, q), q in percent, with numpy's linear interpolation
\* between the two nearest ranks
Percentile(values, q) ==
    LET sorted == Sorted(values)
        n == Len(sorted)
        position == RMul(RDiv(q, RInt(100)), RInt(n - 1))
        below == Floor(position)
        fraction == RSub(position, RInt(below))
    IN  IF below + 1 >= n THEN sorted[n]
        ELSE RAdd(sorted[below + 1],
                  RMul(fraction, RSub(sorted[below + 2], sorted[below + 1])))

\* np.mean
Mean(values) ==
    RDiv(RSum(values, DOMAIN values), RInt(Len(values)))

\* the largest r in lo..hi with r * r <= n
RECURSIVE ISqrtBetween(_, _, _)
ISqrtBetween(n, lo, hi) ==
    IF lo >= hi THEN lo
    ELSE LET mid == (lo + hi + 1) \div 2
         IN  IF mid * mid <= n
             THEN ISqrtBetween(n, mid, hi)
             ELSE ISqrtBetween(n, lo, mid - 1)

\* np.sqrt of a non-negative number, to 1/SqrtScale, rounded down
Sqrt(x) ==
    LET scaled == Floor(RMul(x, RInt(SqrtScale * SqrtScale)))
    IN  Rat(ISqrtBetween(scaled, 0, IF scaled < 40000 THEN scaled ELSE 40000),
            SqrtScale)

\* np.std: the square root of the mean squared deviation from the mean
Std(values) ==
    LET mu == Mean(values)
        squares == [i \in DOMAIN values |->
                       RMul(RSub(values[i], mu), RSub(values[i], mu))]
    IN  Sqrt(Mean(squares))

\* norm.ppf(0.05, loc, scale) = loc + scale * (-1.6449), the 5 % quantile of
\* the standard normal distribution to four decimals
NormPpf05(loc, scale) == RAdd(loc, RMul(scale, Rat(-16449, 10000)))

\* var = max(0, initial_investment - var_percentile)
VarOfPercentile(investment, var_percentile) ==
    RMax(Zero, RSub(RInt(investment), var_percentile))

\* the mutant takes the values at or above var_percentile
AtOrAbove(values, threshold) ==
    SelectSeq(values, LAMBDA v : RLe(threshold, v))

\* final_values[final_values <= var_percentile]
AtOrBelow(values, threshold) ==
    SelectSeq(values, LAMBDA v : RLe(v, threshold))

\* the dict calculate_risk_metrics returns
RiskMetrics(values, investment, level) ==
    LET low == RMul(RSub(One, level), RInt(100))
        high == RMul(level, RInt(100))
        var_percentile == Percentile(values, low)
        cvar_values == AtOrBelow(values, var_percentile)
        sorted == Sorted(values)
    IN  [mean |-> Mean(values),
         median |-> Percentile(values, RInt(50)),
         min |-> sorted[1],
         max |-> sorted[Len(sorted)],
         confidence_interval |->
             <<Percentile(values, low), Percentile(values, high)>>,
         var |-> VarOfPercentile(investment, var_percentile),
         cvar |-> IF Len(cvar_values) > 0
                  THEN RMax(Zero, RSub(RInt(investment), Mean(cvar_values)))
                  ELSE Zero]

RkFrame == UNCHANGED <<rbVars, rng, mcVars, stVars, pfVars, opVars>>

\* AssetManagement/MonteCarloSimulator: calculate_risk_metrics(final_values,
\* initial_investment, confidence_level); main() prints its 'var' as "95% VaR"
CalculateRiskMetrics(values, investment, level) ==
    /\ rk_pc = "idle"
    /\ rk_final_values' = values
    /\ rk_initial_investment' = investment
    /\ confidence_level' = level
    /\ risk_metrics' = RiskMetrics(values, investment, level)
    /\ var_report' = risk_metrics'.var
    /\ rk_pc' = "calculate_risk_metrics"
    /\ RkFrame

\* MonteCarloSimulation: var_95 = norm.ppf(0.05, mean_final_value,
\* np.std(final_values)); the script prints initial_investment - var_95 as
\* "95% VaR"
ReportVar95(values, investment) ==
    /\ rk_pc = "idle"
    /\ rk_final_values' = values
    /\ rk_initial_investment' = investment
    /\ confidence_level' = Rat(95, 100)
    /\ risk_metrics' =
           [mean |-> Mean(values),
            median |-> Percentile(values, RInt(50)),
            min |-> Sorted(values)[1],
            max |-> Sorted(values)[Len(values)],
            confidence_interval |->
                <<Percentile(values, RInt(5)), Percentile(values, RInt(95))>>,
            var_95 |-> NormPpf05(Mean(values), Std(values))]
    /\ var_report' = RSub(RInt(investment), risk_metrics'.var_95)
    /\ rk_pc' = "script"
    /\ RkFrame

RkInit == RbInit /\ rng = 0 /\ McIdle /\ StIdle /\ RkIdle /\ PfIdle /\ OpIdle

RkNext ==
    \/ \E values \in FinalValueArrays, investment \in RiskInvestmentChoices,
          level \in ConfidenceChoices :
              CalculateRiskMetrics(values, investment, level)
    \/ \E values \in FinalValueArrays, investment \in RiskInvestmentChoices :
              ReportVar95(values, investment)

SpecRisk == RkInit /\ [][RkNext]_vars

(***************************************************************************)
(* Properties of the risk metrics                                          *)
(***************************************************************************)
\* C10: the Value-at-Risk reported is never negative.
C10_VarNeverNegative ==
    rk_pc # "idle" => RLe(Zero, var_report)

\* the same, of calculate_risk_metrics alone
CalculatedVarNeverNegative ==
    rk_pc = "calculate_risk_metrics" => C10_VarNeverNegative

\* the percentile threshold of the call, (1 - confidence_level) * 100
VarThreshold ==
    Percentile(rk_final_values, RMul(RSub(One, confidence_level), RInt(100)))

\* C11: in calculate_risk_metrics, whenever some final value lies at or below
\* the percentile threshold, the CVaR reported is at least the VaR reported.
C11_CVaRAtLeastVaR ==
    (/\ rk_pc = "calculate_risk_metrics"
     /\ \E i \in DOMAIN rk_final_values :
            RLe(rk_final_values[i], VarThreshold))
        => RLe(risk_metrics.var, risk_metrics.cvar)

\* a call whose tail is not empty and whose CVaR exceeds a positive VaR
C11_Witness ==
    /\ rk_pc = "calculate_risk_metrics"
    /\ \E i \in DOMAIN rk_final_values :
           RLe(rk_final_values[i], VarThreshold)
    /\ RLt(Zero, risk_metrics.var)
    /\ RLt(risk_metrics.var, risk_metrics.cvar)

\* the two-sided interval of a level: the percentiles at (1 - level) / 2 and
\* 1 - (1 - level) / 2
TwoSidedInterval(values, level) ==
    LET tail == RDiv(RSub(One, level), RInt(2))
    IN  <<Percentile(values, RMul(tail, RInt(100))),
          Percentile(values, RMul(RSub(One, tail), RInt(100)))>>

\* C12: the confidence interval calculate_risk_metrics computes for a level
\* is the two-sided one, and its lower end is at most its upper end.
C12_ConfidenceIntervalTwoSided ==
    rk_pc = "calculate_risk_metrics" =>
        /\ risk_metrics.confidence_interval =
               TwoSidedInterval(rk_final_values, confidence_level)
        /\ RLe(risk_metrics.confidence_interval[1],
               risk_metrics.confidence_interval[2])

\* the interval the script prints as the 90 % one is the two-sided interval
\* of level 0.90, in order
ScriptIntervalTwoSided ==
    rk_pc = "script" =>
        /\ risk_metrics.confidence_interval =
               TwoSidedInterval(rk_final_values, Rat(90, 100))
        /\ RLe(risk_metrics.confidence_interval[1],
               risk_metrics.confidence_interval[2])

\* the interval of calculate_risk_metrics is in order for levels from 1/2 up
CalculatedIntervalOrdered ==
    (rk_pc = "calculate_risk_metrics" /\ RLe(Rat(1, 2), confidence_level))
        => RLe(risk_metrics.confidence_interval[1],
               risk_metrics.confidence_interval[2])

(***************************************************************************)
(* calculate_performance (both rebalance simulators)                       *)
(***************************************************************************)
\* the longest trajectory of portfolio values
MaxTrajectory == 4
\* the positive values a trajectory is made of
TrajectoryValueChoices == {RInt(50), RInt(60), RInt(100)}

Trajectories ==
    UNION {[1..n -> TrajectoryValueChoices] : n \in 1..MaxTrajectory}

\* [portfolio_values[i] / portfolio_values[i-1] - 1
\*  for i in range(1, len(portfolio_values))]
DailyReturns(values) ==
    [i \in 1..(Len(values) - 1) |-> RSub(RDiv(values[i + 1], values[i]), One)]

\* np.cumprod(1 + np.array(daily_returns)), up to entry i
RECURSIVE CumProdAt(_, _)
CumProdAt(returns, i) ==
    IF i = 0 THEN One
    ELSE RMul(CumProdAt(returns, i - 1), RAdd(One, returns[i]))

CumProd(returns) == [i \in 1..Len(returns) |-> CumProdAt(returns, i)]

\* the largest entry among the first i of a sequence, i >= 1
RECURSIVE MaxUpTo(_, _)
MaxUpTo(seq, i) ==
    IF i = 1 THEN seq[1] ELSE RMax(MaxUpTo(seq, i - 1), seq[i])

\* the mutant takes the peak of the whole series at every entry
MaximumOverAll(seq) == [i \in 1..Len(seq) |-> MaxUpTo(seq, Len(seq))]

\* np.maximum.accumulate: the running maximum
MaximumAccumulate(seq) == [i \in 1..Len(seq) |-> MaxUpTo(seq, i)]

\* (peak - cumulative_returns) / peak
Drawdowns(cumulative, peak) ==
    [i \in 1..Len(cumulative) |->
        RDiv(RSub(peak[i], cumulative[i]), peak[i])]

\* np.max(drawdowns) * 100
MaxDrawdown(values) ==
    LET cumulative == CumProd(DailyReturns(values))
        peak == MaximumAccumulate(cumulative)
        drawdowns == Drawdowns(cumulative, peak)
    IN  RMul(MaxUpTo(drawdowns, Len(drawdowns)), RInt(100))

\* (portfolio_values[-1] / portfolio_values[0] - 1) * 100
TotalReturn(values) ==
    RMul(RSub(RDiv(values[Len(values)], values[1]), One), RInt(100))

PfFrame == UNCHANGED <<rbVars, rng, mcVars, stVars, rkVars, opVars>>

\* calculate_performance(portfolio_values, risk_free_rate) returns; the
\* annual return and the Sharpe ratio it also returns are powers and roots
\* that feed into neither of the two results kept here
CalculatePerformance(values) ==
    /\ pf_pc = "idle"
    /\ Len(values) >= 2
    /\ pf_portfolio_values' = values
    /\ performance' = [total_return |-> TotalReturn(values),
                       max_drawdown |-> MaxDrawdown(values)]
    /\ pf_pc' = "returned"
    /\ PfFrame

\* with a single value there are no daily returns, and np.max of the empty
\* array of drawdowns raises ValueError
CalculatePerformanceRaises(values) ==
    /\ pf_pc = "idle"
    /\ Len(values) < 2
    /\ pf_portfolio_values' = values
    /\ pf_pc' = "ValueError"
    /\ UNCHANGED performance
    /\ PfFrame

PfInit == RbInit /\ rng = 0 /\ McIdle /\ StIdle /\ RkIdle /\ PfIdle /\ OpIdle

PfNext ==
    \/ \E values \in Trajectories : CalculatePerformance(values)
    \/ \E values \in Trajectories : CalculatePerformanceRaises(values)

SpecPerformance == PfInit /\ [][PfNext]_vars

(***************************************************************************)
(* Properties of calculate_performance                                     *)
(***************************************************************************)
\* the decline from v[i] to v[j], (v[i] - v[j]) / v[i]
Decline(values, i, j) == RDiv(RSub(values[i], values[j]), values[i])

\* the largest decline over all i <= j, in percent
PeakToTroughDecline(values) ==
    LET pairs == {p \in (DOMAIN values) \X (DOMAIN values) : p[1] <= p[2]}
        worst == CHOOSE p \in pairs : \A q \in pairs :
                     RLe(Decline(values, q[1], q[2]),
                         Decline(values, p[1], p[2]))
    IN  RMul(Decline(values, worst[1], worst[2]), RInt(100))

\* C13: the max drawdown returned is the largest peak-to-trough decline of
\* the whole trajectory, the first value counted as a possible peak (both in
\* percent).
C13_MaxDrawdownIsLargestDecline ==
    pf_pc = "returned" =>
        performance.max_drawdown = PeakToTroughDecline(pf_portfolio_values)

\* the same of the trajectory without its first value, which is what the
\* cumulative product of the daily returns keeps
MaxDrawdownSkipsFirstValue ==
    pf_pc = "returned" =>
        performance.max_drawdown =
            PeakToTroughDecline(Tail(pf_portfolio_values))

StrictlyIncreasing(values) ==
    \A i \in 1..(Len(values) - 1) : RLt(values[i], values[i + 1])

\* C14: the max drawdown of a strictly increasing trajectory of at least two
\* values is 0.
C14_IncreasingHasNoDrawdown ==
    (/\ pf_pc = "returned"
     /\ Len(pf_portfolio_values) >= 2
     /\ StrictlyIncreasing(pf_portfolio_values))
        => performance.max_drawdown = Zero

\* a strictly increasing trajectory of three values was measured
C14_Witness ==
    /\ pf_pc = "returned"
    /\ Len(pf_portfolio_values) >= 3
    /\ StrictlyIncreasing(pf_portfolio_values)
    /\ performance.max_drawdown = Zero

(***************************************************************************)
(* Further properties of monte_carlo_simulation                            *)
(***************************************************************************)
\* portfolio_value of path sim after day d, had rebalance_months been rm
RECURSIVE ValueWith(_, _, _)
ValueWith(rm, sim, d) ==
    IF d < 0 THEN RInt(initial_investment)
    ELSE StepValueWith(rm, ValueWith(rm, sim, d - 1), d, sim)

\* C20: for the returns drawn, the histories and the final values are those
\* of every other value of rebalance_months (None, 0 or a positive integer).
C20_RebalanceMonthsHasNoEffect ==
    mc_pc \in {"running", "returned"} =>
        \A rm \in RebalanceMonthsChoices : \A sim \in Sims :
            /\ \A d \in Written(sim) :
                   cumulative_returns[d][sim] =
                       RDiv(ValueWith(rm, sim, d), RInt(initial_investment))
            /\ mc_pc = "returned" =>
                   final_values[sim] = ValueWith(rm, sim, Days - 1)

\* a call with a positive rebalance_months returned after a rebalance day on
\* which the value was not the initial investment
C20_Witness ==
    /\ mc_pc = "returned"
    /\ Truthy(rebalance_months)
    /\ Days > rebalance_months[1] * DaysPerMonth
    /\ \E sim \in Sims :
           /\ cumulative_returns[rebalance_months[1] * DaysPerMonth - 1][sim]
                  # One
           /\ final_values[sim] # Zero

\* with volatility 0 the value of every path after d + 1 days is
\* initial_investment * (1 + expected_return / 252)^(d + 1)
DeterministicDailyCompounding ==
    (mc_pc \in {"running", "returned"} /\ volatility = Zero) =>
        \A sim \in Sims : \A d \in Written(sim) :
            cumulative_returns[d][sim] =
                Power(RAdd(One, RDiv(expected_return,
                                     RInt(TradingDaysPerYear))),
                      d + 1)

(***************************************************************************)
(* PortfolioOptimizer: tangency_portfolio, min_variance_portfolio,         *)
(* efficient_frontier and display_efficient_frontier.  scipy's minimize is *)
(* outside the repository: a call returns some OptimizeResult, converged   *)
(* (success) or not.                                                       *)
(***************************************************************************)
\* the number of target returns of the frontier (50 in the source)
NumTargets == 2

\* the weight vectors and objective values a solve may come back with
WeightVectorChoices == {<<One, Zero>>, <<Rat(1, 2), Rat(1, 2)>>}
FunChoices == {Rat(1, 10), Rat(2, 10)}

\* the OptimizeResult objects minimize may return
OptimizeResults == [success : BOOLEAN, x : WeightVectorChoices, fun : FunChoices]

\* a solve made by a function of the optimizer, as the solver saw it
Solve(caller, result) == [caller |-> caller, result |-> result]

OpFrame == UNCHANGED <<rbVars, rng, mcVars, stVars, rkVars, pfVars>>

\* max_sharpe = tangency_portfolio(...), which returns minimize's result as
\* it is; max_sharpe['x'] is then measured and made into the allocation table
TangencyPortfolio(result) ==
    /\ op_pc = "idle"
    /\ solves' = Append(solves, Solve("tangency_portfolio", result))
    /\ max_sharpe' = result
    /\ allocations_shown' = Append(allocations_shown, result.x)
    /\ op_pc' = "tangency"
    /\ UNCHANGED <<min_vari, efficients>>
    /\ OpFrame

\* min_vari = min_variance_portfolio(...), the same way
MinVariancePortfolio(result) ==
    /\ op_pc = "tangency"
    /\ solves' = Append(solves, Solve("min_variance_portfolio", result))
    /\ min_vari' = result
    /\ allocations_shown' = Append(allocations_shown, result.x)
    /\ op_pc' = "min_variance"
    /\ UNCHANGED <<max_sharpe, efficients>>
    /\ OpFrame

\* one pass of the loop of efficient_frontier: efficients.append(result['fun']);
\* after the last pass the list is returned and plotted
EfficientFrontierStep(result) ==
    /\ op_pc \in {"min_variance", "frontier"}
    /\ Len(efficients) < NumTargets
    /\ solves' = Append(solves, Solve("efficient_frontier", result))
    /\ efficients' = Append(efficients, result.fun)
    /\ op_pc' = IF Len(efficients') = NumTargets THEN "displayed" ELSE "frontier"
    /\ UNCHANGED <<max_sharpe, min_vari, allocations_shown>>
    /\ OpFrame

OpInit == RbInit /\ rng = 0 /\ McIdle /\ StIdle /\ RkIdle /\ PfIdle /\ OpIdle

OpNext ==
    \/ \E result \in OptimizeResults : TangencyPortfolio(result)
    \/ \E result \in OptimizeResults : MinVariancePortfolio(result)
    \/ \E result \in OptimizeResults : EfficientFrontierStep(result)

SpecOptimizer == OpInit /\ [][OpNext]_vars

(***************************************************************************)
(* Properties of the optimizer                                             *)
(***************************************************************************)
\* the solves that did not converge
NonConverged == {i \in DOMAIN solves : ~solves[i].result.success}

\* C16: once a solve has not converged an OptimizationFailure is reported and
\* the weights or volatility of that solve are not used as a result.
C16_NonConvergenceIsReported ==
    NonConverged # {} =>
        /\ op_pc = "OptimizationFailure"
        /\ Len(allocations_shown) + Len(efficients) < Len(solves)

\* the result of every solve is used, converged or not
EverySolveIsUsed ==
    /\ Len(allocations_shown) + Len(efficients) = Len(solves)
    /\ op_pc # "OptimizationFailure"

=============================================================================
